---- MODULE Spec2Model ----
(***************************************************************************)
(* A model of pkg/framework/aggregation_server.go: NewServer (the route    *)
(* table built from the APIKinds of a ServerConfig) and                    *)
(* Server.handleResourceFunc (Get, List and the watch session of a         *)
(* structured resource).                                                   *)
(*                                                                         *)
(* Query parameter values are strings, as r.URL.Query().Get returns them   *)
(* ("" when the parameter is absent).  The two numeric parameters (limit,  *)
(* timeoutSeconds) are sequences of one-character strings, so that         *)
(* strconv.ParseInt is computed digit by digit.                            *)
(***************************************************************************)
EXTENDS Integers, Sequences, FiniteSets, TLC

VARIABLES
    args,       \* the arguments of handleResourceFunc: namespace, name, r, listCallback, watchCallback
    pc,         \* position of the handler: "Init", "Streaming", "Closed", "Panicked"
    w,          \* the http.ResponseWriter: status code, Content-Type, body writes, flushed prefix
    calls,      \* calls issued to the RESTMapper and to the backing clients, in order
    watcher,    \* the watch.Interface returned by the dynamic client
    ctxDone,    \* r.Context() has been canceled
    nReceived,  \* number of events the handler has taken from watcher.ResultChan()
    nOffered,   \* number of events the backing watch has produced
    config,     \* ServerConfig.APIKinds handed to NewServer
    build       \* NewServer: loop index, existingApiResources, mux patterns, namespaced handlers, outcome

vars == <<args, pc, w, calls, watcher, ctxDone, nReceived, nOffered, config, build>>

handlerVars == <<args, pc, w, calls, watcher, ctxDone, nReceived, nOffered>>

buildVars == <<config, build>>

----------------------------------------------------------------------------
(* Bounds of the model. *)

\* events a backing watch produces during one session
MaxEvents == 2

\* items a backing List returns
MaxItems == 2

\* APIKinds in a ServerConfig
MaxKinds == 3

----------------------------------------------------------------------------
(* Strings. *)

\* strings.ToLower on the query values used here
ToLower(s) ==
    CASE s = "TRUE" -> "true"
      [] s = "True" -> "true"
      [] s = "FALSE" -> "false"
      [] OTHER -> s

\* strings.EqualFold(s, t)
EqualFold(s, t) == ToLower(s) = ToLower(t)

Digit == {"0", "1", "2", "3", "4", "5", "6", "7", "8", "9"}

DigitVal(c) ==
    CASE c = "0" -> 0 [] c = "1" -> 1 [] c = "2" -> 2 [] c = "3" -> 3 [] c = "4" -> 4
      [] c = "5" -> 5 [] c = "6" -> 6 [] c = "7" -> 7 [] c = "8" -> 8 [] c = "9" -> 9

RECURSIVE ParseDigits(_, _)
ParseDigits(s, acc) ==
    IF s = <<>> THEN acc ELSE ParseDigits(Tail(s), acc * 10 + DigitVal(Head(s)))

\* strconv.ParseInt(s, 10, 64): an optional sign followed by one or more
\* decimal digits.  The inputs of this model are short enough to stay far
\* below the int64 range, so ErrRange never occurs.
ParseInt(s) ==
    IF s = <<>> THEN [err |-> TRUE, v |-> 0]
    ELSE LET signed == Head(s) \in {"+", "-"}
             body   == IF signed THEN Tail(s) ELSE s
         IN  IF body = <<>> \/ \E i \in 1..Len(body) : body[i] \notin Digit
             THEN [err |-> TRUE, v |-> 0]
             ELSE [err |-> FALSE,
                   v   |-> IF Head(s) = "-" THEN 0 - ParseDigits(body, 0)
                           ELSE ParseDigits(body, 0)]

\* fields.ParseSelector on the sample selectors: a term is lhs=rhs, lhs==rhs
\* or lhs!=rhs; anything else is an "invalid selector" error.
ParseSelector(s) ==
    CASE s = "spec.a=b"  -> [err |-> FALSE, sel |-> <<[lhs |-> "spec.a", op |-> "=", rhs |-> "b"]>>]
      [] s = "spec.a==b" -> [err |-> FALSE, sel |-> <<[lhs |-> "spec.a", op |-> "=", rhs |-> "b"]>>]
      [] s = "spec.a!=b" -> [err |-> FALSE, sel |-> <<[lhs |-> "spec.a", op |-> "!=", rhs |-> "b"]>>]
      [] OTHER -> [err |-> TRUE, sel |-> <<>>]

\* labels.Parse accepting every string
LabelsParseLenient(s) == [err |-> FALSE, sel |-> <<[lhs |-> s, op |-> "exists", rhs |-> ""]>>]

\* labels.Parse on the sample selectors
LabelsParse(s) ==
    CASE s = "app=x" -> [err |-> FALSE, sel |-> <<[lhs |-> "app", op |-> "=", rhs |-> "x"]>>]
      [] s = "app"   -> [err |-> FALSE, sel |-> <<[lhs |-> "app", op |-> "exists", rhs |-> ""]>>]
      [] OTHER -> [err |-> TRUE, sel |-> <<>>]

----------------------------------------------------------------------------
(* Requests. *)

Methods == {"GET", "POST", "PUT", "DELETE"}

Names == {"", "bar"}

Namespaces == {"", "ns1"}

WatchValues == {"true", "TRUE"}

NoWatchValues == {"", "false", "1"}

ResourceVersions == {"", "0", "7"}

ResourceVersionMatches == {"", "Exact", "NotOlderThan", "exact"}

SendInitialValues == {"", "true", "True", "false"}

BookmarkValues == {"", "true", "TRUE", "false"}

FieldSelectors == {"", "spec.a=b", "spec.a==b", "spec.a!=b", "spec.a"}

LabelSelectors == {"", "app=x", "app in ("}

RawLimits ==
    { <<>>, <<"0">>, <<"1">>, <<"7">>, <<"5", "0", "0">>, <<"1", "0", "0", "0">>,
      <<"1", "0", "0", "1">>, <<"5", "0", "0", "0">>, <<"-", "1">>, <<"+", "7">>,
      <<"x">>, <<"1", "x">>, <<"-">> }

RawTimeouts == { <<>>, <<"9">>, <<"0">>, <<"-", "5">>, <<"x">> }

Continues == {"", "tok"}

DefaultQuery ==
    [ watch |-> "", allowWatchBookmarks |-> "", resourceVersion |-> "",
      resourceVersionMatch |-> "", sendInitialEvents |-> "", timeoutSeconds |-> <<>>,
      fieldSelector |-> "", labelSelector |-> "", limit |-> <<>>, continue |-> "" ]

\* Watch requests: every combination of the parameters of the
\* sendInitialEvents validation, and every combination of name, field
\* selector and bookmark flag; the others one at a time.
WatchQueries ==
    { [DefaultQuery EXCEPT !.watch = "true", !.resourceVersion = rv,
                           !.resourceVersionMatch = m, !.sendInitialEvents = s]
        : rv \in ResourceVersions, m \in ResourceVersionMatches, s \in SendInitialValues }
    \cup
    { [DefaultQuery EXCEPT !.watch = wv, !.fieldSelector = f, !.allowWatchBookmarks = b]
        : wv \in WatchValues, f \in {"", "spec.a=b", "spec.a"}, b \in BookmarkValues }
    \cup
    { [DefaultQuery EXCEPT !.watch = "true", !.timeoutSeconds = t, !.labelSelector = l]
        : t \in RawTimeouts, l \in {"", "app=x"} }

\* Get and List requests: every combination of limit and selectors; the
\* others one at a time (the watch-only parameters included: a List ignores
\* them).
ListQueries ==
    { [DefaultQuery EXCEPT !.limit = l, !.fieldSelector = f, !.labelSelector = s]
        : l \in RawLimits, f \in FieldSelectors, s \in LabelSelectors }
    \cup
    { [DefaultQuery EXCEPT !.watch = wv, !.resourceVersion = rv, !.resourceVersionMatch = m,
                           !.continue = c]
        : wv \in NoWatchValues, rv \in {"", "7"}, m \in ResourceVersionMatches, c \in Continues }
    \cup
    { [DefaultQuery EXCEPT !.timeoutSeconds = t, !.sendInitialEvents = s]
        : t \in RawTimeouts, s \in {"", "true"} }

Requests ==
    { [Method |-> "GET", query |-> q] : q \in WatchQueries \cup ListQueries }
    \cup
    { [Method |-> m, query |-> q] : m \in Methods \ {"GET"},
                                    q \in { DefaultQuery, [DefaultQuery EXCEPT !.watch = "true"] } }

\* The arguments handleResourceFunc is called with.  listCallback and
\* watchCallback are TRUE when the hook is not nil.
HandlerArgs ==
    { [namespace |-> ns, name |-> n, r |-> rq, listCallback |-> cb, watchCallback |-> cb]
        : ns \in Namespaces, n \in Names, rq \in Requests, cb \in BOOLEAN }

----------------------------------------------------------------------------
(* The http.ResponseWriter. *)

StatusOK == 200

StatusBadRequest == 400

StatusNotFound == 404

StatusMethodNotAllowed == 405

StatusGone == 410

StatusInternalServerError == 500

NewResponseWriter == [code |-> 0, contentType |-> "", body |-> <<>>, flushed |-> 0]

\* w.WriteHeader(code): the status line and the headers go out once
WriteHeader(wr, code) == IF wr.code = 0 THEN [wr EXCEPT !.code = code] ELSE wr

\* w.Header().Set("Content-Type", ct): no effect on the wire once the header is out
SetContentType(wr, ct) == IF wr.code = 0 THEN [wr EXCEPT !.contentType = ct] ELSE wr

\* w.Write(item): an implicit WriteHeader(200), then the bytes
Write(wr, item) == [WriteHeader(wr, StatusOK) EXCEPT !.body = Append(wr.body, item)]

\* Flush that leaves what was written in the buffer
FlushNothing(wr) == wr

\* flusher.Flush(): everything written so far reaches the client
Flush(wr) == [WriteHeader(wr, StatusOK) EXCEPT !.flushed = Len(wr.body)]

\* http.Error(w, msg, code)
HttpError(wr, msg, code) ==
    Write(WriteHeader(SetContentType(wr, "text/plain; charset=utf-8"), code),
          [kind |-> "error", msg |-> msg, code |-> code])

\* http.NotFound(w, r)
HttpNotFound(wr) == HttpError(wr, "404 page not found", StatusNotFound)

\* json.NewEncoder(w).Encode(v): "ok" writes one JSON document; "marshalErr"
\* fails before anything is written; "writeErr" fails in w.Write, after the
\* implicit WriteHeader(200).
EncodeOutcomes == {"ok", "marshalErr", "writeErr"}

Encode(wr, v, outcome) ==
    CASE outcome = "ok" -> Write(wr, [kind |-> "json", value |-> v])
      [] outcome = "writeErr" -> WriteHeader(wr, StatusOK)
      [] OTHER -> wr

----------------------------------------------------------------------------
(* Errors of the RESTMapper, the backing clients and the hooks. *)

\* isStatus: the error is an *apierrors.StatusError; code: its ErrStatus.Code
BackingErrors ==
    { [isStatus |-> TRUE, code |-> StatusNotFound, msg |-> "not found"],
      [isStatus |-> TRUE, code |-> StatusGone, msg |-> "too old resource version"],
      [isStatus |-> TRUE, code |-> StatusInternalServerError, msg |-> "etcd unavailable"],
      [isStatus |-> FALSE, code |-> 0, msg |-> "connection refused"] }

\* err == nil
NoError == [isStatus |-> FALSE, code |-> 0, msg |-> "ok"]

\* the error a backing call returned, by its outcome
ErrorOf(result) == IF result = "ok" THEN NoError ELSE CHOOSE e \in BackingErrors : e.msg = result

\* apierrors.IsNotFound(err), as client.IgnoreNotFound uses it
IsNotFound(err) == err.isStatus /\ err.code = StatusNotFound

\* IsGone without the comparison of the status code
IsGoneAnyStatus(err) == err.isStatus

\* errors.As(err, &se) && se.ErrStatus.Code == http.StatusGone
IsGone(err) == err.isStatus /\ err.code = StatusGone

----------------------------------------------------------------------------
(* Query semantics of the watch branch. *)

DefaultTimeoutSec == 60

\* allowBookmarks with a case-sensitive comparison
allowBookmarksCaseSensitive(q) == q.allowWatchBookmarks = "true"

allowBookmarks(q) == EqualFold(q.allowWatchBookmarks, "true")

\* rvm with the values compared case-insensitively
rvmCaseInsensitive(q) ==
    CASE q.resourceVersionMatch \in {"Exact", "exact"} -> "Exact"
      [] OTHER -> "NotOlderThan"

rvm(q) ==
    CASE q.resourceVersionMatch = "Exact" -> "Exact"
      [] q.resourceVersionMatch = "NotOlderThan" -> "NotOlderThan"
      [] OTHER -> "NotOlderThan"

sendInitial(q) ==
    IF q.sendInitialEvents # ""
    THEN EqualFold(q.sendInitialEvents, "true")
    ELSE q.resourceVersion = "" \/ q.resourceVersion = "0"

timeoutSec(q) ==
    LET p == ParseInt(q.timeoutSeconds)
    IN  IF q.timeoutSeconds # <<>> /\ ~p.err /\ p.v > 0 THEN p.v ELSE DefaultTimeoutSec

\* fs with the user's selector kept when there is one
fsUserFirst(q, name) ==
    IF q.fieldSelector # "" THEN q.fieldSelector
    ELSE IF name # "" THEN "metadata.name=" \o name ELSE ""

fs(q, name) == IF name # "" THEN "metadata.name=" \o name ELSE q.fieldSelector

\* the metav1.ListOptions handed to Watch
WatchListOptions(q, name) ==
    [ ResourceVersion      |-> q.resourceVersion,
      ResourceVersionMatch |-> rvm(q),
      TimeoutSeconds       |-> timeoutSec(q),
      SendInitialEvents    |-> sendInitial(q),
      Watch                |-> TRUE,
      AllowWatchBookmarks  |-> allowBookmarks(q),
      LabelSelector        |-> q.labelSelector,
      FieldSelector        |-> fs(q, name) ]

\* InvalidSendInitial applied only to an explicitly supplied sendInitialEvents
InvalidSendInitialExplicitOnly(q) ==
    q.sendInitialEvents # "" /\ sendInitial(q) /\ rvm(q) # "NotOlderThan"

\* the sendInitialEvents x resourceVersionMatch validation
InvalidSendInitial(q) == sendInitial(q) /\ rvm(q) # "NotOlderThan"

----------------------------------------------------------------------------
(* The backing watch. *)

NoWatcher == [opened |-> FALSE, stopped |-> FALSE, closed |-> FALSE, ch |-> <<>>]

Unstructured(id) == [kind |-> "unstructured", id |-> id, gvk |-> "", code |-> 0]

Typed(id) == [kind |-> "typed", id |-> id, gvk |-> "", code |-> 0]

NilObject == [kind |-> "nil", id |-> 0, gvk |-> "", code |-> 0]

Status(code) == [kind |-> "status", id |-> 0, gvk |-> "", code |-> code]

\* the events a backing watch can deliver as its id-th event
Events(id) ==
    { [Type |-> t, Object |-> Unstructured(id)] : t \in {"ADDED", "MODIFIED", "DELETED", "BOOKMARK"} }
    \cup
    { [Type |-> "ADDED", Object |-> NilObject],
      [Type |-> "MODIFIED", Object |-> Typed(id)],
      [Type |-> "ERROR", Object |-> Status(StatusGone)],
      [Type |-> "ERROR", Object |-> Unstructured(id)] }

\* o.GetObjectKind().SetGroupVersionKind(kind)
SetGroupVersionKind(o, kind) == [o EXCEPT !.gvk = kind]

----------------------------------------------------------------------------
(* handleResourceFunc: the common prelude. *)

IsWatch(q) == EqualFold(q.watch, "true")

KindForCalls == << [op |-> "KindFor", gvr |-> "newGVR"], [op |-> "KindFor", gvr |-> "newListGVR"] >>

\* MethodNotAllowed with the method check moved below the kind lookups
MethodNotAllowedAfterKindFor ==
    /\ pc = "Init"
    /\ args.r.Method # "GET"
    /\ w' = HttpError(w, "only GET", StatusMethodNotAllowed)
    /\ calls' = KindForCalls
    /\ pc' = "Closed"
    /\ UNCHANGED <<args, watcher, ctxDone, nReceived, nOffered, buildVars>>

\* r.Method != http.MethodGet
MethodNotAllowed ==
    /\ pc = "Init"
    /\ args.r.Method # "GET"
    /\ w' = HttpError(w, "only GET", StatusMethodNotAllowed)
    /\ pc' = "Closed"
    /\ UNCHANGED <<args, calls, watcher, ctxDone, nReceived, nOffered, buildVars>>

\* RESTMapper().KindFor fails for the object kind (n = 1) or for the list kind (n = 2)
KindForFails ==
    /\ pc = "Init"
    /\ args.r.Method = "GET"
    /\ \E n \in 1..2 :
        /\ calls' = SubSeq(KindForCalls, 1, n)
        /\ w' = HttpError(w, IF n = 1 THEN "failed to find kind: no match"
                             ELSE "failed to find list kind: no match",
                          StatusInternalServerError)
    /\ pc' = "Closed"
    /\ UNCHANGED <<args, watcher, ctxDone, nReceived, nOffered, buildVars>>

----------------------------------------------------------------------------
(* handleResourceFunc: the watch branch. *)

\* From the start of the handler to the first select, or to the return that
\* precedes it: the flusher check, the query parsing and validation, the
\* Watch call.
OpenWatch ==
    /\ pc = "Init"
    /\ args.r.Method = "GET"
    /\ IsWatch(args.r.query)
    /\ UNCHANGED <<args, ctxDone, nReceived, nOffered, buildVars>>
    /\ \E flusherOk \in BOOLEAN, result \in {"ok"} \cup { e.msg : e \in BackingErrors } :
        LET q    == args.r.query
            w1   == SetContentType(w, "application/json;stream=watch; charset=utf-8")
            err  == ErrorOf(result)
            call == [op |-> "Watch", namespace |-> args.namespace,
                     listOpts |-> WatchListOptions(q, args.name), err |-> err]
        IN  IF ~flusherOk
            THEN /\ w' = HttpError(w, "streaming not supported by server", StatusInternalServerError)
                 /\ calls' = KindForCalls
                 /\ pc' = "Closed"
                 /\ UNCHANGED watcher
            ELSE IF InvalidSendInitial(q)
            THEN /\ w' = HttpError(w1, "sendInitialEvents requires resourceVersionMatch=NotOlderThan",
                                   StatusBadRequest)
                 /\ calls' = KindForCalls
                 /\ pc' = "Closed"
                 /\ UNCHANGED watcher
            ELSE IF result # "ok"
            THEN /\ w' = IF IsGone(err)
                         THEN HttpError(w1, err.msg, StatusGone)
                         ELSE HttpError(w1, "failed to initialize watcher: " \o err.msg,
                                        StatusInternalServerError)
                 /\ calls' = Append(KindForCalls, call)
                 /\ pc' = "Closed"
                 /\ UNCHANGED watcher
            ELSE /\ w' = w1
                 /\ calls' = Append(KindForCalls, call)
                 /\ watcher' = [NoWatcher EXCEPT !.opened = TRUE]
                 /\ pc' = "Streaming"

\* watcher.Stop()
Stop(wt) == [wt EXCEPT !.stopped = TRUE]

\* SelectDone with the return lost (a break that leaves only the select)
SelectDoneNoReturn ==
    /\ pc = "Streaming"
    /\ ctxDone
    /\ ~watcher.stopped
    /\ watcher' = Stop(watcher)
    /\ UNCHANGED <<args, pc, w, calls, ctxDone, nReceived, nOffered, buildVars>>

\* case <-r.Context().Done()
SelectDone ==
    /\ pc = "Streaming"
    /\ ctxDone
    /\ watcher' = Stop(watcher)
    /\ pc' = "Closed"
    /\ UNCHANGED <<args, w, calls, ctxDone, nReceived, nOffered, buildVars>>

\* RecvClosed answering the end of the backing watch with an error
RecvClosedWithError ==
    /\ pc = "Streaming"
    /\ watcher.closed
    /\ watcher.ch = <<>>
    /\ w' = HttpError(w, "watch closed", StatusInternalServerError)
    /\ pc' = "Closed"
    /\ UNCHANGED <<args, calls, watcher, ctxDone, nReceived, nOffered, buildVars>>

\* case event, ok := <-watcher.ResultChan() with ok false
RecvClosed ==
    /\ pc = "Streaming"
    /\ watcher.closed
    /\ watcher.ch = <<>>
    /\ pc' = "Closed"
    /\ UNCHANGED <<args, w, calls, watcher, ctxDone, nReceived, nOffered, buildVars>>

\* enc.Encode(event) of a watch.Event, whose fields carry no json tags
EncodedEvent(event) ==
    [typeKey |-> "Type", objectKey |-> "Object", Type |-> event.Type, Object |-> event.Object]

\* enc.Encode(watchEvent{Type, Object})
EncodedWatchEvent(type, object) ==
    [typeKey |-> "type", objectKey |-> "object", Type |-> type, Object |-> object]

\* what a watch-transform hook returns for an object
WatchCallbackResult(o) == [o EXCEPT !.kind = "transformed"]

\* One iteration of the loop for a received event: the response writer and
\* whether the handler returns.  cbOk and enc are the outcomes of the
\* watch-transform hook and of the encoder.
HandleEvent(wr, event, cbOk, enc) ==
    IF event.Type = "ERROR"
    THEN [ret |-> TRUE,
          w   |-> IF event.Object.kind = "status"
                  THEN HttpError(wr, "watch error: too old resource version", event.Object.code)
                  ELSE HttpError(wr, "watch error: unknown", StatusInternalServerError)]
    ELSE IF event.Type = "BOOKMARK"
    THEN IF allowBookmarks(args.r.query)
         THEN IF enc # "ok"
              THEN [ret |-> TRUE,
                    w   |-> HttpError(Encode(wr, EncodedEvent(event), enc),
                                      "failed to send bookmark: encode",
                                      StatusInternalServerError)]
              ELSE [ret |-> FALSE, w |-> Flush(Encode(wr, EncodedEvent(event), enc))]
         ELSE [ret |-> FALSE, w |-> wr]
    ELSE IF event.Object.kind = "nil"
    THEN [ret |-> FALSE, w |-> wr]
    ELSE IF event.Object.kind # "unstructured"
    THEN [ret |-> TRUE,
          w   |-> HttpError(wr, "failed to cast to unstructured", StatusInternalServerError)]
    ELSE IF args.watchCallback /\ ~cbOk
    THEN [ret |-> TRUE,
          w   |-> HttpError(wr, "watch error: hook", StatusInternalServerError)]
    ELSE LET unstructuredObj == SetGroupVersionKind(event.Object, "newKind")
             res == IF args.watchCallback THEN WatchCallbackResult(unstructuredObj)
                    ELSE unstructuredObj
             doc == EncodedWatchEvent(event.Type, res)
         IN  IF enc # "ok"
             THEN [ret |-> TRUE,
                   w   |-> HttpError(Encode(wr, doc, enc),
                                     "failed to encode watch response: encode",
                                     StatusInternalServerError)]
             ELSE [ret |-> FALSE, w |-> Flush(Encode(wr, doc, enc))]

\* case event, ok := <-watcher.ResultChan() with ok true
RecvEvent ==
    /\ pc = "Streaming"
    /\ watcher.ch # <<>>
    /\ \E cbOk \in BOOLEAN, enc \in EncodeOutcomes :
        LET out == HandleEvent(w, Head(watcher.ch), cbOk, enc)
        IN  /\ w' = out.w
            /\ pc' = IF out.ret THEN "Closed" ELSE "Streaming"
    /\ watcher' = [watcher EXCEPT !.ch = Tail(watcher.ch)]
    /\ nReceived' = nReceived + 1
    /\ UNCHANGED <<args, calls, ctxDone, nOffered, buildVars>>

----------------------------------------------------------------------------
(* The environment of a watch session. *)

\* the client disconnects: the transport cancels r.Context()
CancelContext ==
    /\ pc = "Streaming"
    /\ ~ctxDone
    /\ ctxDone' = TRUE
    /\ UNCHANGED <<args, pc, w, calls, watcher, nReceived, nOffered, buildVars>>

\* the backing watch has its next event ready on the (unbuffered) result channel
BackingOffer ==
    /\ pc = "Streaming"
    /\ ~watcher.closed
    /\ watcher.ch = <<>>
    /\ nOffered < MaxEvents
    /\ \E e \in Events(nOffered + 1) : watcher' = [watcher EXCEPT !.ch = <<e>>]
    /\ nOffered' = nOffered + 1
    /\ UNCHANGED <<args, pc, w, calls, ctxDone, nReceived, buildVars>>

\* the backing watch ends (server-side timeout, end of stream) and closes the
\* result channel
BackingClose ==
    /\ pc = "Streaming"
    /\ ~watcher.closed
    /\ watcher.ch = <<>>
    /\ watcher' = [watcher EXCEPT !.closed = TRUE]
    /\ UNCHANGED <<args, pc, w, calls, ctxDone, nReceived, nOffered, buildVars>>

----------------------------------------------------------------------------
(* handleResourceFunc: Get and List. *)

DefaultLimit == 500

MaxLimit == 1000

\* limit without the upper bound
limitNoUpperBound(q) ==
    LET l == ParseInt(q.limit)
    IN  IF q.limit # <<>> /\ ~l.err /\ l.v > 0 THEN l.v ELSE DefaultLimit

\* limit with values above the maximum clamped to it
limitClamped(q) ==
    LET l == ParseInt(q.limit)
    IN  IF q.limit # <<>> /\ ~l.err /\ l.v > 0
        THEN (IF l.v <= MaxLimit THEN l.v ELSE MaxLimit)
        ELSE DefaultLimit

limit(q) ==
    LET l == ParseInt(q.limit)
    IN  IF q.limit # <<>> /\ ~l.err /\ l.v > 0 /\ l.v <= MaxLimit THEN l.v ELSE DefaultLimit

\* the client.ListOptions handed to List; <<>> is a nil selector
ListOptions(q, namespace) ==
    [ Namespace |-> namespace,
      Limit |-> limit(q),
      Continue |-> q.continue,
      LabelSelector |-> IF q.labelSelector # "" THEN LabelsParse(q.labelSelector).sel ELSE <<>>,
      FieldSelector |-> IF q.fieldSelector # "" THEN ParseSelector(q.fieldSelector).sel ELSE <<>>,
      ResourceVersion |-> q.resourceVersion,
      ResourceVersionMatch |-> rvm(q) ]

Object(name, id) == [kind |-> "object", name |-> name, id |-> id, gvk |-> ""]

\* a list object (a runtime.Object that meta.ExtractList accepts)
ObjectList(gvk, objs) == [kind |-> "list", gvk |-> gvk, items |-> objs]

\* meta.EachListItem(items, SetGroupVersionKind(newKind))
StampItems(items) ==
    [items EXCEPT !.items = [i \in 1..Len(items.items) |->
                                SetGroupVersionKind(items.items[i], "newKind")]]

\* What a list-transform hook can return: the list it was given, a new list
\* object of the converted items, a list object without items, a runtime
\* object that is no list, or a value that is no runtime.Object (a struct
\* returned by value).
ListCallbackOutcomes == {"err", "identity", "list", "emptyList", "object", "value"}

ListCallbackResult(items, outcome) ==
    CASE outcome = "identity" -> items
      [] outcome = "list" ->
            ObjectList("CombinedList",
                       [i \in 1..Len(items.items) |-> [items.items[i] EXCEPT !.kind = "combined"]])
      [] outcome = "emptyList" -> ObjectList("CombinedList", <<>>)
      [] outcome = "object" -> [kind |-> "object", gvk |-> "Combined", items |-> <<>>]
      [] OTHER -> [kind |-> "value", gvk |-> "CombinedList", items |-> items.items]

\* lines 581-589 with the hook handed the list as fetched, before the kind
\* metadata is stamped on its items
HookResultBeforeStamp(listCallback, stamped, cb) ==
    IF listCallback
    THEN ListCallbackResult([stamped EXCEPT !.items = [i \in 1..Len(stamped.items) |->
                                        [stamped.items[i] EXCEPT !.gvk = ""]]], cb)
    ELSE stamped

\* lines 581-589: res is the stamped list, or what the list-transform hook
\* returns for it
HookResult(listCallback, stamped, cb) ==
    IF listCallback THEN ListCallbackResult(stamped, cb) ELSE stamped

\* the listCallback(r.Context(), namespace, name, items) call of line 584, as
\* the log of calls records it
ListCallbackCall(namespace, name, stamped, cb) ==
    [op |-> "ListCallback", namespace |-> namespace, name |-> name, items |-> stamped,
     outcome |-> cb]

\* Lines 562-602: from the Content-Type header to the return.  items0 is the
\* fetched list, cb the outcome of the list-transform hook, enc the outcome of
\* the encoder.  Yields the response writer, the handler's final position and
\* the hook calls made.
RespondWith(listCallback, namespace, name, wr, items0, cb, enc) ==
    LET w1    == SetContentType(wr, "application/json; charset=utf-8")
        items == [items0 EXCEPT !.gvk = "newKindList"]
        encodeOf(v) ==
            IF enc = "ok" THEN Encode(w1, v, enc)
            ELSE HttpError(Encode(w1, v, enc), "failed to encode response: encode",
                           StatusInternalServerError)
    IN  IF Len(items.items) = 0
        THEN [pc |-> "Closed", w |-> encodeOf(items), hook |-> <<>>]
        ELSE LET stamped == StampItems(items)
                 hook == IF listCallback THEN <<ListCallbackCall(namespace, name, stamped, cb)>>
                         ELSE <<>>
                 res == HookResult(listCallback, stamped, cb)
             IN  IF listCallback /\ cb = "err"
                 THEN [pc |-> "Closed", hook |-> hook,
                       w |-> HttpError(w1, "failed to list tasks: hook", StatusInternalServerError)]
                 ELSE IF name # "" /\ res.kind = "list"
                 THEN IF Len(res.items) = 0
                      THEN [pc |-> "Panicked", w |-> w1, hook |-> hook]
                      ELSE [pc |-> "Closed", w |-> encodeOf(res.items[1]), hook |-> hook]
                 ELSE [pc |-> "Closed", w |-> encodeOf(res), hook |-> hook]

\* the response of this request
Respond(wr, items0, cb, enc) ==
    RespondWith(args.listCallback, args.namespace, args.name, wr, items0, cb, enc)

\* the response to a failed s.KubeClient.Get
GetError(wr, err) ==
    IF ~IsNotFound(err)
    THEN HttpError(wr, "failed to get task: " \o err.msg, StatusInternalServerError)
    ELSE HttpNotFound(wr)

\* name != "": s.KubeClient.Get and the response
ServeGet ==
    /\ pc = "Init"
    /\ args.r.Method = "GET"
    /\ ~IsWatch(args.r.query)
    /\ args.name # ""
    /\ UNCHANGED <<args, watcher, ctxDone, nReceived, nOffered, buildVars>>
    /\ \E result \in {"ok"} \cup { e.msg : e \in BackingErrors },
          cb \in ListCallbackOutcomes, enc \in EncodeOutcomes :
        LET err == ErrorOf(result)
            out == Respond(w, ObjectList("", <<Object(args.name, 1)>>), cb, enc)
            call == [op |-> "Get", namespace |-> args.namespace, name |-> args.name,
                     err |-> err]
        IN  IF result # "ok"
            THEN /\ w' = GetError(w, err)
                 /\ calls' = Append(KindForCalls, call)
                 /\ pc' = "Closed"
            ELSE /\ w' = out.w
                 /\ calls' = Append(KindForCalls, call) \o out.hook
                 /\ pc' = out.pc

\* name == "": the query parsing, s.KubeClient.List and the response
ServeList ==
    /\ pc = "Init"
    /\ args.r.Method = "GET"
    /\ ~IsWatch(args.r.query)
    /\ args.name = ""
    /\ UNCHANGED <<args, watcher, ctxDone, nReceived, nOffered, buildVars>>
    /\ \E result \in {"ok"} \cup { e.msg : e \in BackingErrors }, n \in 0..MaxItems,
          cb \in ListCallbackOutcomes, enc \in EncodeOutcomes :
        LET q    == args.r.query
            err  == ErrorOf(result)
            call == [op |-> "List", listOpts |-> ListOptions(q, args.namespace), err |-> err]
            out  == Respond(w, ObjectList("", [i \in 1..n |-> Object("item", i)]), cb, enc)
        IN  IF q.labelSelector # "" /\ LabelsParse(q.labelSelector).err
            THEN /\ w' = HttpError(w, "failed to parse labelSelector: invalid", StatusBadRequest)
                 /\ calls' = KindForCalls
                 /\ pc' = "Closed"
            ELSE IF q.fieldSelector # "" /\ ParseSelector(q.fieldSelector).err
            THEN /\ w' = HttpError(w, "failed to parse fieldSelector: invalid", StatusBadRequest)
                 /\ calls' = KindForCalls
                 /\ pc' = "Closed"
            ELSE IF result # "ok"
            THEN /\ w' = IF IsGone(err)
                         THEN HttpError(w, err.msg, StatusGone)
                         ELSE HttpError(w, "failed to list tasks: " \o err.msg,
                                        StatusInternalServerError)
                 /\ calls' = Append(KindForCalls, call)
                 /\ pc' = "Closed"
            ELSE /\ w' = out.w
                 /\ calls' = Append(KindForCalls, call) \o out.hook
                 /\ pc' = out.pc

----------------------------------------------------------------------------
(* The specification of one call of handleResourceFunc. *)

\* NewServer is not part of this specification
\* no request has reached the mux
NoRequest == [path |-> <<>>, Method |-> "", query |-> [watch |-> ""]]

\* no handler has run
NoServed ==
    [handler |-> [kind |-> "none", i |-> 0, ii |-> 0, route |-> "none"],
     hNamespace |-> "", hName |-> "", callback |-> "none", namespace |-> "", name |-> "",
     notFound |-> FALSE]

NoBuild ==
    [i |-> 0, existingApiResources |-> {}, mux |-> {}, apiResources |-> <<>>,
     resourceHandlersNamespaced |-> {}, state |-> "idle", panicMsg |-> "",
     routed |-> "none", request |-> NoRequest, served |-> NoServed]

Init ==
    /\ args \in HandlerArgs
    /\ pc = "Init"
    /\ w = NewResponseWriter
    /\ calls = <<>>
    /\ watcher = NoWatcher
    /\ ctxDone = FALSE
    /\ nReceived = 0
    /\ nOffered = 0
    /\ config = <<>>
    /\ build = NoBuild

Next ==
    \/ MethodNotAllowed
    \/ KindForFails
    \/ OpenWatch
    \/ SelectDone
    \/ RecvClosed
    \/ RecvEvent
    \/ CancelContext
    \/ BackingOffer
    \/ BackingClose
    \/ ServeGet
    \/ ServeList

Spec == Init /\ [][Next]_vars

----------------------------------------------------------------------------
(* NewServer: the route table. *)

\* A ServeMux pattern is a path, as its sequence of segments; subtree is TRUE
\* for a pattern that ends in "/".
Pattern(segs, subtree) == [segs |-> segs, subtree |-> subtree]

\* "/apis/" + config.Group + "/" + config.Version
GroupVersionPath == <<"apis", "example.com", "v1">>

KindNames == {"foo", "widgets"}

\* the callbacks of a CustomResource
CustomHandlerNames == {"Create", "Get", "List", "Replace", "Delete", "Watch"}

\* The contents of an APIKind beside its ApiResource: the raw endpoints (each
\* key as its path segments, <<>> for ""), the number of entries of Resources
\* and of CustomResources, and the callbacks of a CustomResource that are not
\* nil.
KindShapes ==
    { [Namespaced |-> FALSE, RawEndpoints |-> {<<>>, <<"bar">>}, Resources |-> 0, CustomResources |-> 0,
       Handlers |-> {}],
      [Namespaced |-> TRUE,  RawEndpoints |-> {<<"bar">>}, Resources |-> 0, CustomResources |-> 0,
       Handlers |-> {}],
      [Namespaced |-> FALSE, RawEndpoints |-> {}, Resources |-> 1, CustomResources |-> 0,
       Handlers |-> {}],
      [Namespaced |-> TRUE,  RawEndpoints |-> {}, Resources |-> 1, CustomResources |-> 0,
       Handlers |-> {}],
      [Namespaced |-> FALSE, RawEndpoints |-> {}, Resources |-> 0, CustomResources |-> 1,
       Handlers |-> CustomHandlerNames],
      [Namespaced |-> TRUE,  RawEndpoints |-> {}, Resources |-> 0, CustomResources |-> 1,
       Handlers |-> CustomHandlerNames],
      [Namespaced |-> FALSE, RawEndpoints |-> {}, Resources |-> 0, CustomResources |-> 1,
       Handlers |-> {"Get", "List"}],
      [Namespaced |-> TRUE,  RawEndpoints |-> {}, Resources |-> 0, CustomResources |-> 1,
       Handlers |-> {"Get", "Create"}],
      [Namespaced |-> FALSE, RawEndpoints |-> {}, Resources |-> 2, CustomResources |-> 0,
       Handlers |-> {}],
      [Namespaced |-> TRUE,  RawEndpoints |-> {}, Resources |-> 1, CustomResources |-> 1,
       Handlers |-> CustomHandlerNames] }

APIKinds ==
    { [Name |-> n, Namespaced |-> sh.Namespaced, RawEndpoints |-> sh.RawEndpoints,
       Resources |-> sh.Resources, CustomResources |-> sh.CustomResources,
       Handlers |-> sh.Handlers]
        : n \in KindNames, sh \in KindShapes }

Configs == UNION { [1..k -> APIKinds] : k \in 0..MaxKinds }

\* the orders in which a range over the map RawEndpoints can yield its keys
Orders(S) ==
    { o \in [1..Cardinality(S) -> S] : \A a, b \in 1..Cardinality(S) : o[a] = o[b] => a = b }

\* Handler with the closure reading the loop's APIKind when it is called,
\* after the loop has ended, instead of holding its own copy
HandlerAliased(kind, i, ii, route) ==
    [kind |-> kind, i |-> Len(config), ii |-> ii, route |-> route]

\* a registered handler: the APIKind (index in config.APIKinds) and the entry
\* of Resources or CustomResources (index ii) its closure captured
Handler(kind, i, ii, route) == [kind |-> kind, i |-> i, ii |-> ii, route |-> route]

Registration(pattern, handler) == [pattern |-> pattern, handler |-> handler]

RECURSIVE BindingRoutes(_, _, _, _)
\* the srv.mux.HandleFunc calls of the loop over ak.Resources (kind
\* "structured") or ak.CustomResources (kind "custom"), entries ii..n
BindingRoutes(ak, i, kind, ii) ==
    LET n == IF kind = "structured" THEN ak.Resources ELSE ak.CustomResources
        collection == Registration(Pattern(GroupVersionPath \o <<ak.Name>>, FALSE),
                                   Handler(kind, i, ii, "collection"))
        item == Registration(Pattern(GroupVersionPath \o <<ak.Name>>, TRUE),
                             Handler(kind, i, ii, "item"))
    IN  IF ii > n THEN <<>>
        ELSE (IF ak.Namespaced THEN <<collection>> ELSE <<collection, item>>)
             \o BindingRoutes(ak, i, kind, ii + 1)

\* the srv.mux.HandleFunc calls of one iteration of the loop over
\* config.APIKinds, in order; order is the order of the range over RawEndpoints
KindRoutes(ak, i, order) ==
    [k \in 1..Len(order) |->
        Registration(Pattern(GroupVersionPath \o <<ak.Name>> \o order[k], FALSE),
                     Handler("raw", i, k, "raw"))]
    \o BindingRoutes(ak, i, "structured", 1)
    \o BindingRoutes(ak, i, "custom", 1)

RECURSIVE HandleFuncAll(_, _)
\* srv.mux.HandleFunc for each registration in turn: ServeMux panics when a
\* pattern is registered twice.  mux is the set of registrations made.
HandleFuncAll(mux, regs) ==
    IF regs = <<>> THEN [mux |-> mux, panic |-> FALSE]
    ELSE IF \E m \in mux : m.pattern = Head(regs).pattern
    THEN [mux |-> mux, panic |-> TRUE]
    ELSE HandleFuncAll(mux \cup {Head(regs)}, Tail(regs))

RECURSIVE NamespacedHandlers(_, _, _, _)
\* the assignments to resourceHandlersNamespaced[ak.ApiResource.Name] of one
\* iteration: a later assignment overwrites an earlier one
NamespacedHandlers(handlers, ak, i, regs) ==
    IF regs = <<>> \/ ~ak.Namespaced THEN handlers
    ELSE LET h == Head(regs).handler
         IN  NamespacedHandlers(
                 IF h.kind \in {"structured", "custom"}
                 THEN { x \in handlers : x.name # ak.Name }
                      \cup {[name |-> ak.Name, handler |-> [h EXCEPT !.route = "namespaced"]]}
                 ELSE handlers,
                 ak, i, Tail(regs))

StaticRoutes ==
    { Registration(Pattern(<<"healthz">>, FALSE), Handler("healthz", 0, 0, "static")),
      Registration(Pattern(<<"readyz">>, FALSE), Handler("readyz", 0, 0, "static")),
      Registration(Pattern(<<"apis">>, FALSE), Handler("groups", 0, 0, "static")) }

NewBuild ==
    [i |-> 0, existingApiResources |-> {}, mux |-> StaticRoutes, apiResources |-> <<>>,
     resourceHandlersNamespaced |-> {}, state |-> "building", panicMsg |-> "",
     routed |-> "none", request |-> NoRequest, served |-> NoServed]

\* the uniqueness check with names never recorded as existing
ExistingApiResourceNever(existing, name) == FALSE

\* the uniqueness check of one iteration
ExistingApiResource(existing, name) == name \in existing

\* one iteration of the loop over config.APIKinds
RegisterKind ==
    /\ build.state = "building"
    /\ build.i < Len(config)
    /\ UNCHANGED <<handlerVars, config>>
    /\ LET i  == build.i + 1
           ak == config[i]
       IN  IF ExistingApiResource(build.existingApiResources, ak.Name)
           THEN build' = [build EXCEPT !.i = i, !.state = "panicked",
                                       !.panicMsg = "APIResource must be unique: " \o ak.Name]
           ELSE \E order \in Orders(ak.RawEndpoints) :
                   LET regs == KindRoutes(ak, i, order)
                       out  == HandleFuncAll(build.mux, regs)
                   IN  build' =
                         [build EXCEPT
                            !.i = i,
                            !.existingApiResources = @ \cup {ak.Name},
                            !.apiResources = Append(@, ak.Name),
                            !.mux = out.mux,
                            !.resourceHandlersNamespaced =
                                IF out.panic THEN @ ELSE NamespacedHandlers(@, ak, i, regs),
                            !.state = IF out.panic THEN "panicked" ELSE "building",
                            !.panicMsg = IF out.panic THEN "http: multiple registrations"
                                         ELSE ""]

\* after the loop: the resource list route, the shared namespaced route, and
\* the return of the server
FinishNewServer ==
    /\ build.state = "building"
    /\ build.i = Len(config)
    /\ UNCHANGED <<handlerVars, config>>
    /\ LET regs == << Registration(Pattern(GroupVersionPath, FALSE),
                                   Handler("resources", 0, 0, "static")) >>
                   \o IF build.resourceHandlersNamespaced # {}
                      THEN << Registration(Pattern(GroupVersionPath \o <<"namespaces">>, TRUE),
                                           Handler("namespaces", 0, 0, "namespaced")) >>
                      ELSE <<>>
           out  == HandleFuncAll(build.mux, regs)
       IN  build' = [build EXCEPT !.mux = out.mux,
                                  !.state = IF out.panic THEN "panicked" ELSE "returned",
                                  !.panicMsg = IF out.panic THEN "http: multiple registrations"
                                               ELSE ""]

\* s is a prefix of t
IsPrefix(s, t) == Len(s) <= Len(t) /\ SubSeq(t, 1, Len(s)) = s

\* ServeMux: the registration that serves a path.  A pattern that does not
\* end in "/" matches that path alone; one that does matches every path
\* below it; the longest match wins.
Match(mux, path) ==
    LET fits == { m \in mux : IF m.pattern.subtree
                              THEN IsPrefix(m.pattern.segs, path) /\ Len(path) > Len(m.pattern.segs)
                              ELSE m.pattern.segs = path }
    IN  { m \in fits : \A o \in fits : Len(o.pattern.segs) <= Len(m.pattern.segs) }

RequestPaths ==
    { <<"healthz">>, GroupVersionPath }
    \cup { GroupVersionPath \o <<n>> : n \in KindNames }
    \cup { GroupVersionPath \o <<n, "x">> : n \in KindNames }
    \cup { GroupVersionPath \o <<n, "bar">> : n \in KindNames }
    \cup { GroupVersionPath \o <<"namespaces", "ns1", n>> : n \in KindNames }
    \cup { GroupVersionPath \o <<n, "">> : n \in KindNames }
    \cup { GroupVersionPath \o <<n, "x", "y">> : n \in KindNames }
    \cup { GroupVersionPath \o <<"namespaces", "ns1", n, "x">> : n \in KindNames }
    \cup { GroupVersionPath \o <<"namespaces", "ns1", n, "">> : n \in KindNames }
    \cup { GroupVersionPath \o <<"namespaces", "ns1", n, "x", "y">> : n \in KindNames }
    \cup { GroupVersionPath \o <<"namespaces">>, GroupVersionPath \o <<"namespaces", "">>,
           GroupVersionPath \o <<"namespaces", "ns1">>,
           GroupVersionPath \o <<"namespaces", "ns1", "gadgets">>,
           GroupVersionPath \o <<"gadgets">> }

\* the methods of the requests that reach the mux
RouterMethods == Methods \cup {"PATCH"}

\* A request to the mux: r.URL.Path split at "/" (a trailing "/" leaves a last
\* segment ""), r.Method and the watch parameter of the query.
MuxRequests ==
    { [path |-> p, Method |-> m, query |-> [watch |-> wv]]
        : p \in RequestPaths, m \in RouterMethods, wv \in {"", "TRUE"} }

\* a handler that calls callback(namespace, name, w, r)
Invoke(callback, namespace, name) ==
    [callback |-> callback, namespace |-> namespace, name |-> name, notFound |-> FALSE]

\* a handler that returns without a call and without a write (the callback
\* its switch selects is nil)
NoInvoke == [callback |-> "none", namespace |-> "", name |-> "", notFound |-> FALSE]

\* http.NotFound(w, r) in a handler
RouterNotFound == [callback |-> "none", namespace |-> "", name |-> "", notFound |-> TRUE]

\* lines 196-205: the switch of the collection route of a CustomResource;
\* handlers is the set of its callbacks that are not nil
CustomCollection(handlers, r) ==
    IF r.Method = "GET"
    THEN IF IsWatch(r.query) /\ "Watch" \in handlers THEN Invoke("Watch", "", "")
         ELSE IF "List" \in handlers THEN Invoke("List", "", "")
         ELSE NoInvoke
    ELSE RouterNotFound

\* lines 216-239 (namespace "", name parts[0]) and lines 243-266: the switch
\* of the item route and of the namespaced closure of a CustomResource
CustomSwitch(handlers, r, namespace, name) ==
    CASE r.Method = "GET" ->
            IF IsWatch(r.query) /\ "Watch" \in handlers THEN Invoke("Watch", namespace, name)
            ELSE IF "List" \in handlers /\ name = "" THEN Invoke("List", namespace, name)
            ELSE IF "Get" \in handlers THEN Invoke("Get", namespace, name)
            ELSE NoInvoke
      [] r.Method = "PUT" ->
            IF "Replace" \in handlers THEN Invoke("Replace", namespace, name) ELSE NoInvoke
      [] r.Method = "DELETE" ->
            IF "Delete" \in handlers THEN Invoke("Delete", namespace, name) ELSE NoInvoke
      [] r.Method = "POST" ->
            IF "Create" \in handlers THEN Invoke("Create", "", "") ELSE NoInvoke
      [] OTHER -> RouterNotFound

\* The closure h registered for a Resource or a CustomResource of
\* cfg[h.i], called with (namespace, name): srv.handleResourceFunc for a
\* Resource, the switch over r.Method for a CustomResource.
Closure(cfg, h, r, namespace, name) ==
    LET out == IF h.kind = "structured" THEN Invoke("handleResourceFunc", namespace, name)
               ELSE IF h.route = "collection" THEN CustomCollection(cfg[h.i].Handlers, r)
               ELSE CustomSwitch(cfg[h.i].Handlers, r, namespace, name)
    IN  [handler |-> h, hNamespace |-> namespace, hName |-> name, callback |-> out.callback,
         namespace |-> out.namespace, name |-> out.name, notFound |-> out.notFound]

\* a handler that answers 404 itself
HandlerNotFound(h) == [NoServed EXCEPT !.handler = h, !.notFound = TRUE]

\* the handler of the route "/apis/<group>/<version>/namespaces/" with every
\* request dispatched with an empty name
NamespacesHandlerNoName(cfg, handlers, h, r, parts) ==
    IF Len(parts) < 2 THEN HandlerNotFound(h)
    ELSE IF ~\E x \in handlers : x.name = parts[2] THEN HandlerNotFound(h)
    ELSE Closure(cfg, (CHOOSE x \in handlers : x.name = parts[2]).handler, r, parts[1], "")

\* lines 281-301: the handler of the route
\* "/apis/<group>/<version>/namespaces/"; handlers is
\* resourceHandlersNamespaced, parts the path below the pattern split at "/"
NamespacesHandler(cfg, handlers, h, r, parts) ==
    IF Len(parts) < 2 THEN HandlerNotFound(h)
    ELSE IF ~\E x \in handlers : x.name = parts[2] THEN HandlerNotFound(h)
    ELSE LET handlerFunc == (CHOOSE x \in handlers : x.name = parts[2]).handler
             namespace == parts[1]
             name == IF Len(parts) = 3 THEN parts[3] ELSE ""
         IN  Closure(cfg, handlerFunc, r, namespace, name)

\* The handler of a registration serving request r: the collection routes
\* (lines 144-155, 195-206), the item routes (lines 158-175, 209-240), the
\* namespaces route, and the raw and static handlers.
ServeRegistered(cfg, bld, reg, r) ==
    LET h == reg.handler
        parts == SubSeq(r.path, Len(reg.pattern.segs) + 1, Len(r.path))
    IN  CASE h.kind \in {"structured", "custom"} /\ h.route = "collection" ->
                Closure(cfg, h, r, "", "")
          [] h.kind \in {"structured", "custom"} /\ h.route = "item" ->
                IF parts[1] = "" THEN HandlerNotFound(h) ELSE Closure(cfg, h, r, "", parts[1])
          [] h.kind = "namespaces" ->
                NamespacesHandler(cfg, bld.resourceHandlersNamespaced, h, r, parts)
          [] OTHER -> [NoServed EXCEPT !.handler = h, !.callback = h.kind]

\* s.mux.ServeHTTP: the mux answers 301 for a path that lacks only the final
\* "/" of a registered subtree pattern, and 404 for a path no pattern matches
\* (http.NotFound, with no handler of this package involved).
ServeHTTP(cfg, bld, r) ==
    LET m == Match(bld.mux, r.path)
    IN  IF m # {}
        THEN [routed |-> (CHOOSE x \in m : TRUE).handler.kind,
              served |-> ServeRegistered(cfg, bld, CHOOSE x \in m : TRUE, r)]
        ELSE IF \E x \in bld.mux : x.pattern.subtree /\ x.pattern.segs = r.path
        THEN [routed |-> "301", served |-> NoServed]
        ELSE [routed |-> "404", served |-> [NoServed EXCEPT !.notFound = TRUE]]

\* A request reaches the mux of a server NewServer returned (Start serves
\* s.mux): routed is the kind of handler that serves it ("404" when no
\* pattern matches), served what that handler does.
Route ==
    /\ build.state = "returned"
    /\ build.routed = "none"
    /\ UNCHANGED <<handlerVars, config>>
    /\ \E r \in MuxRequests :
        LET out == ServeHTTP(config, build, r)
        IN  build' = [build EXCEPT !.routed = out.routed, !.request = r, !.served = out.served]

InitBuild ==
    /\ args = CHOOSE a \in HandlerArgs : TRUE
    /\ pc = "Closed"
    /\ w = NewResponseWriter
    /\ calls = <<>>
    /\ watcher = NoWatcher
    /\ ctxDone = FALSE
    /\ nReceived = 0
    /\ nOffered = 0
    /\ config \in Configs
    /\ build = NewBuild

NextBuild ==
    \/ RegisterKind
    \/ FinishNewServer
    \/ Route

SpecBuild == InitBuild /\ [][NextBuild]_vars

----------------------------------------------------------------------------
(* Claims about the watch session (specification Spec). *)

\* the JSON documents written to the response (error texts of http.Error excluded)
Documents(wr) == SelectSeq(wr.body, LAMBDA b : b.kind = "json")

\* C1: on every path by which a watch session ends after the backing watch was
\* opened, watcher.Stop has been called by the time the handler returns.
C1_StoppedOnEveryExit ==
    (pc = "Closed" /\ watcher.opened) => watcher.stopped

\* C2: a watch session whose request context was canceled while it was
\* streaming ends with its backing subscription released, whatever event was
\* ready together with the cancellation.
C2_CanceledSessionReleased ==
    (pc = "Closed" /\ watcher.opened /\ ctxDone) => watcher.stopped

\* C3, as claimed: once the request context is canceled, no event is encoded
\* or flushed.
C3_NoEventAfterCancel ==
    [][ctxDone => (Documents(w') = Documents(w) /\ w'.flushed = w.flushed)]_vars

\* C3, amended: the step that releases the subscription on cancellation writes
\* nothing, and nothing is written once the subscription is released.
C3_NoWriteAfterRelease ==
    [][(watcher.stopped \/ watcher'.stopped) => w' = w]_vars

\* a session released on cancellation after it had written an event, with a
\* further event ready on the channel
C3_Witness ==
    /\ pc = "Closed"
    /\ watcher.stopped
    /\ watcher.ch # <<>>
    /\ Len(Documents(w)) > 0

\* the calls of one kind issued so far
CallsOf(op) == SelectSeq(calls, LAMBDA c : c.op = op)

\* the request is a GET with watch=true (compared case-insensitively)
IsWatchRequest == args.r.Method = "GET" /\ args.r.query.watch \in {"true", "True", "TRUE"}

\* the request is a GET without watch=true
IsReadRequest == args.r.Method = "GET" /\ args.r.query.watch \notin {"true", "True", "TRUE"}

\* the handler returned before it parsed the query: a kind lookup failed, or
\* the response writer cannot flush
FailedBeforeQuery ==
    /\ w.code = StatusInternalServerError
    /\ w.body[1].msg \in { "failed to find kind: no match", "failed to find list kind: no match",
                           "streaming not supported by server" }

\* the effective sendInitialEvents of a query, by the rule of the specification
C4_EffectiveSendInitial(q) ==
    IF q.sendInitialEvents = "" THEN q.resourceVersion \in {"", "0"}
    ELSE q.sendInitialEvents \in {"true", "True", "TRUE"}

\* C4: a watch request with effective sendInitialEvents true and
\* resourceVersionMatch=Exact is answered 400 (when it is not rejected before
\* its query is parsed) and issues no Watch call; every Watch call issued has
\* sendInitialEvents => resourceVersionMatch = NotOlderThan.
C4_SendInitialExactRejected ==
    /\ \A k \in DOMAIN calls :
          (calls[k].op = "Watch" /\ calls[k].listOpts.SendInitialEvents)
              => calls[k].listOpts.ResourceVersionMatch = "NotOlderThan"
    /\ ( /\ pc # "Init"
         /\ IsWatchRequest
         /\ C4_EffectiveSendInitial(args.r.query)
         /\ args.r.query.resourceVersionMatch = "Exact" )
       => /\ pc = "Closed"
          /\ CallsOf("Watch") = <<>>
          /\ w.code = StatusBadRequest \/ FailedBeforeQuery

\* a request without sendInitialEvents, with resourceVersion "0" and
\* resourceVersionMatch=Exact, rejected
C4_Witness ==
    /\ pc = "Closed"
    /\ IsWatchRequest
    /\ args.r.query.resourceVersionMatch = "Exact"
    /\ args.r.query.sendInitialEvents = ""
    /\ args.r.query.resourceVersion = "0"
    /\ w.code = StatusBadRequest
    /\ calls = KindForCalls

\* allowWatchBookmarks is "true", compared case-insensitively
C5_Allowed == args.r.query.allowWatchBookmarks \in {"true", "True", "TRUE"}

\* the step takes a Bookmark event from the result channel
C5_BookmarkReceived ==
    /\ pc = "Streaming"
    /\ watcher.ch # <<>>
    /\ Head(watcher.ch).Type = "BOOKMARK"
    /\ nReceived' = nReceived + 1

\* the step appends exactly one document, the bookmark, and flushes it
C5_OneBookmarkWritten ==
    /\ Len(w'.body) = Len(w.body) + 1
    /\ SubSeq(w'.body, 1, Len(w.body)) = w.body
    /\ w'.body[Len(w'.body)].kind = "json"
    /\ w'.body[Len(w'.body)].value.Type = "BOOKMARK"
    /\ w'.body[Len(w'.body)].value.Object = Head(watcher.ch).Object
    /\ w'.flushed = Len(w'.body)

\* C5, as claimed: a received Bookmark writes nothing when bookmarks are not
\* allowed and exactly one flushed event when they are; the session stays in
\* Streaming either way.
C5_BookmarkForwarded ==
    [][C5_BookmarkReceived =>
          /\ pc' = "Streaming"
          /\ IF C5_Allowed THEN C5_OneBookmarkWritten ELSE w' = w]_vars

\* C5, amended: as claimed, except that when encoding an allowed bookmark
\* fails no event is written, a 500 "failed to send bookmark" is issued and
\* the session ends.
C5_BookmarkForwardedUnlessEncodeFails ==
    [][C5_BookmarkReceived =>
          IF C5_Allowed
          THEN \/ pc' = "Streaming" /\ C5_OneBookmarkWritten
               \/ /\ pc' = "Closed"
                  /\ Documents(w') = Documents(w)
                  /\ w'.flushed = w.flushed
                  /\ w'.body[Len(w'.body)].kind = "error"
                  /\ w'.body[Len(w'.body)].code = StatusInternalServerError
          ELSE pc' = "Streaming" /\ w' = w]_vars

\* a session that forwarded a bookmark requested with allowWatchBookmarks=TRUE
\* and goes on streaming
C5_Witness ==
    /\ pc = "Streaming"
    /\ args.r.query.allowWatchBookmarks = "TRUE"
    /\ nReceived = 1
    /\ Len(w.body) = 1
    /\ w.body[1].kind = "json"
    /\ w.body[1].value.Type = "BOOKMARK"
    /\ w.flushed = 1

\* C6: a Watch call for a request with a name carries the field selector
\* metadata.name=<name> whatever fieldSelector the user supplied, and without
\* a name the user's fieldSelector; a List call is issued only without a name
\* and carries the user's (parsed) fieldSelector; a read with a name is a Get
\* of exactly that name.
C6_FieldSelector ==
    /\ \A k \in DOMAIN calls :
          calls[k].op = "Watch" =>
              calls[k].listOpts.FieldSelector =
                  IF args.name = "bar" THEN "metadata.name=bar"
                  ELSE args.r.query.fieldSelector
    /\ \A k \in DOMAIN calls :
          calls[k].op = "List" =>
              /\ args.name = ""
              /\ calls[k].listOpts.FieldSelector =
                    IF args.r.query.fieldSelector = "" THEN <<>>
                    ELSE ParseSelector(args.r.query.fieldSelector).sel
    /\ \A k \in DOMAIN calls :
          calls[k].op = "Get" => calls[k].name = args.name /\ args.name # ""
    /\ (pc # "Init" /\ IsReadRequest /\ args.name # "" /\ Len(calls) > 2)
          => calls[3].op = "Get"

\* a watch on the name bar with a user field selector, opened with
\* metadata.name=bar
C6_Witness ==
    /\ pc = "Streaming"
    /\ args.name = "bar"
    /\ args.r.query.fieldSelector = "spec.a=b"
    /\ calls[3].op = "Watch"
    /\ calls[3].listOpts.FieldSelector = "metadata.name=bar"

\* the limit a raw limit parameter stands for: the integers of [1,1000] among
\* the sample parameters, and 500 for every other one
C7_Expected(raw) ==
    CASE raw = <<"1">> -> 1
      [] raw = <<"7">> -> 7
      [] raw = <<"+", "7">> -> 7
      [] raw = <<"5", "0", "0">> -> 500
      [] raw = <<"1", "0", "0", "0">> -> 1000
      [] OTHER -> 500

\* C7: the limit of every List call is the parsed limit parameter when that
\* is an integer of [1,1000], and 500 otherwise.
C7_EffectiveLimit ==
    \A k \in DOMAIN calls :
        calls[k].op = "List" => calls[k].listOpts.Limit = C7_Expected(args.r.query.limit)

\* a List call with limit=1000 issued with limit 1000
C7_Witness ==
    /\ pc = "Closed"
    /\ args.r.query.limit = <<"1", "0", "0", "0">>
    /\ Len(calls) = 3
    /\ calls[3].op = "List"
    /\ calls[3].listOpts.Limit = 1000

\* the limit parameter is an integer above 1000
C8_AboveMax == args.r.query.limit \in { <<"1", "0", "0", "1">>, <<"5", "0", "0", "0">> }

\* C8, as claimed: a List request with a limit above 1000 issues its List
\* call with limit 1000.
C8_LimitClamped ==
    \A k \in DOMAIN calls :
        (calls[k].op = "List" /\ C8_AboveMax) => calls[k].listOpts.Limit = 1000

\* C8, amended: the limit of a List call always lies in [1,1000], and a limit
\* parameter above 1000 is replaced by the default 500, not by 1000.
C8_AboveMaxIsDefault ==
    \A k \in DOMAIN calls :
        calls[k].op = "List" =>
            /\ calls[k].listOpts.Limit \in 1..1000
            /\ C8_AboveMax => calls[k].listOpts.Limit = 500

\* limit=5000 issued as limit 500
C8_Witness ==
    /\ pc = "Closed"
    /\ args.r.query.limit = <<"5", "0", "0", "0">>
    /\ Len(calls) = 3
    /\ calls[3].op = "List"
    /\ calls[3].listOpts.Limit = 500

\* C10: a failed backing Get answers 404 for NotFound, 410 for Gone, and 500
\* with the backing error message for any other error.
C10_GetErrorStatus ==
    \A k \in DOMAIN calls :
        (calls[k].op = "Get" /\ calls[k].err # NoError) =>
            w.code = CASE calls[k].err.isStatus /\ calls[k].err.code = 404 -> 404
                       [] calls[k].err.isStatus /\ calls[k].err.code = 410 -> 410
                       [] OTHER -> 500

----------------------------------------------------------------------------
(* Claims about Get, List and the opening of a watch (specification Spec). *)

\* C11: a List call or a Watch call that fails is the last call of the
\* request; the response is 410 with the backing error text as its body when
\* the error is a status error of code 410, and 500 otherwise; the error is
\* all that is written, and a failed Watch call leaves the session Closed,
\* never Streaming, with no watcher.
C11_GoneOrInternal ==
    \A k \in DOMAIN calls :
        (calls[k].op \in {"List", "Watch"} /\ calls[k].err # NoError) =>
            /\ k = Len(calls)
            /\ pc = "Closed"
            /\ ~watcher.opened
            /\ nReceived = 0
            /\ Len(w.body) = 1
            /\ w.body[1].kind = "error"
            /\ w.flushed = 0
            /\ IF calls[k].err.isStatus /\ calls[k].err.code = 410
               THEN w.code = 410 /\ w.body[1].msg = calls[k].err.msg
               ELSE w.code = 500

\* a List answered 410 with the text of the backing error
C11_Witness ==
    /\ pc = "Closed"
    /\ Len(calls) = 3
    /\ calls[3].op = "List"
    /\ calls[3].err.code = 410
    /\ w.code = 410
    /\ w.body = << [kind |-> "error", msg |-> "too old resource version", code |-> 410] >>

\* C12: after a successful Get the handler returns normally; the hook, when
\* one is registered, was called once with the one-item list of the fetched
\* object; and the document written is the element at index 0 of the hook's
\* result (of the one-item list without a hook), whatever the hook returned.
C12_GetUnwrapsIndexZero ==
    \A k \in DOMAIN calls :
        (calls[k].op = "Get" /\ calls[k].err = NoError) =>
            /\ pc = "Closed"
            /\ Len(CallsOf("ListCallback")) = (IF args.listCallback THEN 1 ELSE 0)
            /\ \A h \in DOMAIN calls :
                  (calls[h].op = "ListCallback" /\ calls[h].outcome # "err"
                     /\ w.code = 200 /\ Documents(w) # <<>>) =>
                      /\ Len(calls[h].items.items) = 1
                      /\ LET res == ListCallbackResult(calls[h].items, calls[h].outcome)
                         IN  Len(res.items) > 0 => Documents(w)[1].value = res.items[1]

\* C13: after a successful List with a hook registered, the hook was called
\* exactly once, with the list stamped with the list kind and its items with
\* the kind, and the document written is the hook's result; for lists of
\* every length, the empty list included.
C13_HookOnEveryList ==
    \A k \in DOMAIN calls :
        (calls[k].op = "List" /\ calls[k].err = NoError /\ args.listCallback) =>
            /\ Len(CallsOf("ListCallback")) = 1
            /\ LET h == CallsOf("ListCallback")[1]
               IN  /\ h.items.gvk = "newKindList"
                   /\ \A i \in DOMAIN h.items.items : h.items.items[i].gvk = "newKind"
                   /\ (h.outcome # "err" /\ w.code = 200 /\ Documents(w) # <<>>) =>
                          Documents(w)[1].value = ListCallbackResult(h.items, h.outcome)

\* C16: every JSON document written to a watch response has the keys "type"
\* and "object", in lower case.
C16_LowerCaseKeys ==
    \A k \in DOMAIN w.body :
        (IsWatchRequest /\ w.body[k].kind = "json") =>
            /\ w.body[k].value.typeKey = "type"
            /\ w.body[k].value.objectKey = "object"

\* C17: a request with a method other than GET is answered 405 with no call
\* to the RESTMapper or to a backing client; and the calls of every request
\* are kind lookups, Get, List and Watch (and the list-transform hook).
C17_ReadOnly ==
    /\ (pc # "Init" /\ args.r.Method # "GET") =>
          /\ pc = "Closed"
          /\ w.code = 405
          /\ Len(w.body) = 1
          /\ calls = <<>>
          /\ ~watcher.opened
    /\ \A k \in DOMAIN calls : calls[k].op \in {"KindFor", "Get", "List", "Watch", "ListCallback"}
    /\ \A k \in DOMAIN calls : calls[k].op # "KindFor" => args.r.Method = "GET"

\* a DELETE with watch=true answered 405
C17_Witness ==
    /\ pc = "Closed"
    /\ args.r.Method = "DELETE"
    /\ args.r.query.watch = "true"
    /\ w.code = 405
    /\ calls = <<>>

\* C19: when the hook returned the list it was given, the response (and the
\* way the handler ends) is one the handler produces for the same list with
\* no hook registered: the stamped list for a List, its element for a Get.
C19_IdentityHookIsNoHook ==
    \A k \in DOMAIN calls :
        (calls[k].op = "ListCallback" /\ calls[k].outcome = "identity") =>
            /\ \E enc \in EncodeOutcomes :
                  LET out == RespondWith(FALSE, args.namespace, args.name, NewResponseWriter,
                                         calls[k].items, "identity", enc)
                  IN  w = out.w /\ pc = out.pc
            /\ (w.code = 200 /\ Documents(w) # <<>>) =>
                  /\ Documents(w)[1].value =
                        (IF args.name # "" THEN calls[k].items.items[1] ELSE calls[k].items)
                  /\ calls[k].items.gvk = "newKindList"
                  /\ \A i \in DOMAIN calls[k].items.items : calls[k].items.items[i].gvk = "newKind"

\* a Get through an identity hook answered with the stamped object
C19_Witness ==
    /\ pc = "Closed"
    /\ args.name = "bar"
    /\ args.listCallback
    /\ Len(calls) = 4
    /\ calls[4].op = "ListCallback"
    /\ calls[4].outcome = "identity"
    /\ w.code = 200
    /\ Documents(w) = << [kind |-> "json", value |-> [Object("bar", 1) EXCEPT !.gvk = "newKind"]] >>

\* the labelSelector or the fieldSelector of the query does not parse
C20_Malformed(q) == q.labelSelector = "app in (" \/ q.fieldSelector = "spec.a"

\* C20: a List request with a selector that does not parse issues no List
\* call and is answered 400 with the parse diagnostic (unless a kind lookup
\* failed before the query was read); a List request is answered 400 only for
\* such a selector, and every other List request whose kind lookups succeed
\* issues its List call, whatever its limit, timeoutSeconds,
\* resourceVersionMatch, continue and the other parameters are.
C20_SelectorErrorsOnly ==
    (pc # "Init" /\ IsReadRequest /\ args.name = "") =>
        /\ C20_Malformed(args.r.query) =>
              /\ CallsOf("List") = <<>>
              /\ \/ FailedBeforeQuery
                 \/ /\ w.code = 400
                    /\ w.body \in { << [kind |-> "error", code |-> 400,
                                        msg |-> "failed to parse labelSelector: invalid"] >>,
                                    << [kind |-> "error", code |-> 400,
                                        msg |-> "failed to parse fieldSelector: invalid"] >> }
        /\ w.code = 400 => C20_Malformed(args.r.query)
        /\ ~C20_Malformed(args.r.query) =>
              \/ Len(calls) < 3 /\ FailedBeforeQuery
              \/ Len(CallsOf("List")) = 1

\* a List with a malformed labelSelector (and limit and field selector in
\* order) answered 400 without a List call
C20_Witness ==
    /\ pc = "Closed"
    /\ args.name = ""
    /\ args.r.query.labelSelector = "app in ("
    /\ args.r.query.fieldSelector = "spec.a=b"
    /\ args.r.query.limit = <<"7">>
    /\ w.code = 400
    /\ calls = KindForCalls

----------------------------------------------------------------------------
(* Claims about the events of a watch session (specification Spec). *)

\* the step ends a streaming session
SessionEnds == pc = "Streaming" /\ pc' = "Closed"

\* the step takes an event from the result channel
EventReceived == pc = "Streaming" /\ nReceived' = nReceived + 1

\* C21: a step that ends a session after an event was written and flushed
\* writes nothing more, no status, no header and no error text; and a backing
\* Error event with a Status, received before anything was written, is
\* answered with the code of that Status.
C21_NoWriteAfterFirstEvent ==
    [][ /\ (SessionEnds /\ w.flushed > 0) => w' = w
        /\ ( /\ SessionEnds
             /\ EventReceived
             /\ w.body = <<>>
             /\ Head(watcher.ch).Type = "ERROR"
             /\ Head(watcher.ch).Object.kind = "status" )
           => /\ w'.code = Head(watcher.ch).Object.code
              /\ Len(w'.body) = 1
              /\ w'.body[1].kind = "error" ]_vars

\* the handler drops the event and goes on: a bookmark that is not allowed,
\* or an event other than Error and Bookmark without a payload
C22_Discarded(e) ==
    \/ e.Type = "BOOKMARK" /\ ~C5_Allowed
    \/ e.Type \notin {"ERROR", "BOOKMARK"} /\ e.Object.kind = "nil"

\* C22: while a session streams, everything written is flushed and the
\* result channel holds at most one event, the next one the handler receives;
\* a step that receives an event and leaves the session streaming writes
\* nothing when the event is a bookmark that is not allowed or has no
\* payload, and otherwise appends the document of exactly that event and
\* flushes it; a step that receives the event on which the session ends adds
\* no document; so the documents written are those of the events received, in
\* their order.
C22_InOrderUnbuffered ==
    /\ [](/\ Len(watcher.ch) <= 1
          /\ nOffered - nReceived = Len(watcher.ch)
          /\ pc = "Streaming" => w.flushed = Len(w.body)
          /\ IsWatchRequest =>
                \A a, b \in DOMAIN Documents(w) :
                    a < b => Documents(w)[a].value.Object.id < Documents(w)[b].value.Object.id)
    /\ [][EventReceived =>
            LET e == Head(watcher.ch)
            IN  /\ watcher.ch = <<e>>
                /\ watcher'.ch = <<>>
                /\ e.Object.id \in {0, nReceived + 1}
                /\ IF pc' # "Streaming"
                   THEN Documents(w') = Documents(w) /\ w'.flushed = w.flushed
                   ELSE IF C22_Discarded(e)
                   THEN w' = w
                   ELSE /\ Len(w'.body) = Len(w.body) + 1
                        /\ SubSeq(w'.body, 1, Len(w.body)) = w.body
                        /\ w'.body[Len(w'.body)].kind = "json"
                        /\ w'.body[Len(w'.body)].value.Type = e.Type
                        /\ w'.body[Len(w'.body)].value.Object.id = e.Object.id
                        /\ w'.flushed = Len(w'.body)]_vars

\* a session that received two events, dropped none and has written and
\* flushed both in their order
C22_Witness ==
    /\ pc = "Streaming"
    /\ nReceived = 2
    /\ Len(w.body) = 2
    /\ w.body[1].value.Object.id = 1
    /\ w.body[2].value.Object.id = 2
    /\ w.flushed = 2

\* the ways a step ends a session: the cancellation branch, the closed result
\* channel, an event
C23_ByCancellation == ctxDone /\ ~watcher.stopped /\ watcher'.stopped /\ nReceived' = nReceived

C23_ByClosure ==
    watcher.closed /\ watcher.ch = <<>> /\ watcher' = watcher /\ nReceived' = nReceived

C23_ByEvent == watcher.ch # <<>> /\ nReceived' = nReceived + 1 /\ watcher'.stopped = watcher.stopped

\* C23: a session that ends because the result channel is closed writes
\* nothing in that step, and no error status and no error text was written
\* before; every step that ends a session takes exactly one of the three
\* ways; and a session that is Closed stays Closed.
C23_CleanEndOnClosure ==
    [][ /\ (SessionEnds /\ C23_ByClosure) =>
              /\ w' = w
              /\ w.code \in {0, StatusOK}
              /\ \A k \in DOMAIN w.body : w.body[k].kind = "json"
        /\ SessionEnds =>
              \/ C23_ByCancellation /\ ~C23_ByClosure /\ ~C23_ByEvent
              \/ ~C23_ByCancellation /\ C23_ByClosure /\ ~C23_ByEvent
              \/ ~C23_ByCancellation /\ ~C23_ByClosure /\ C23_ByEvent
        /\ pc = "Closed" => pc' = "Closed" ]_vars

\* a session ended by the closed result channel before any event, its
\* subscription not stopped and nothing written
C23_Witness ==
    /\ pc = "Closed"
    /\ watcher.opened
    /\ watcher.closed
    /\ ~watcher.stopped
    /\ nReceived = 0
    /\ w = [NewResponseWriter EXCEPT
              !.contentType = "application/json;stream=watch; charset=utf-8"]

\* C24: the Watch call of a watch request carries sendInitialEvents as
\* supplied (true iff "true", case-insensitively) and, when it is not
\* supplied, true exactly for resourceVersion "" or "0", and carries
\* resourceVersionMatch Exact for "Exact" and NotOlderThan for every other
\* value; a request with resourceVersionMatch=Exact, no sendInitialEvents and
\* resourceVersion "" or "0" is answered 400 without a Watch call (unless it
\* failed before its query was read); a request with a resourceVersionMatch
\* other than Exact is never answered 400.
C24_SendInitialDefault ==
    /\ \A k \in DOMAIN calls :
          calls[k].op = "Watch" =>
              /\ calls[k].listOpts.SendInitialEvents =
                    (IF args.r.query.sendInitialEvents # ""
                     THEN args.r.query.sendInitialEvents \in {"true", "True", "TRUE"}
                     ELSE args.r.query.resourceVersion \in {"", "0"})
              /\ calls[k].listOpts.ResourceVersionMatch =
                    (IF args.r.query.resourceVersionMatch = "Exact" THEN "Exact"
                     ELSE "NotOlderThan")
    /\ ( /\ pc # "Init"
         /\ IsWatchRequest
         /\ args.r.query.resourceVersionMatch = "Exact"
         /\ args.r.query.sendInitialEvents = ""
         /\ args.r.query.resourceVersion \in {"", "0"} )
       => /\ CallsOf("Watch") = <<>>
          /\ w.code = StatusBadRequest \/ FailedBeforeQuery
    /\ (IsWatchRequest /\ args.r.query.resourceVersionMatch # "Exact") => w.code # StatusBadRequest

\* a watch with resourceVersionMatch=exact (not a recognized value) and no
\* resourceVersion opened with NotOlderThan and sendInitialEvents true
C24_Witness ==
    /\ pc = "Streaming"
    /\ args.r.query.resourceVersionMatch = "exact"
    /\ args.r.query.sendInitialEvents = ""
    /\ args.r.query.resourceVersion = ""
    /\ calls[3].op = "Watch"
    /\ calls[3].listOpts.ResourceVersionMatch = "NotOlderThan"
    /\ calls[3].listOpts.SendInitialEvents

\* C26: a Get whose backing call succeeded ends with the handler returned
\* and a response written, whatever the list-transform hook returned.
C26_GetAlwaysResponds ==
    (pc # "Init" /\ IsReadRequest /\ args.name # ""
       /\ \E k \in DOMAIN calls : calls[k].op = "Get" /\ calls[k].err = NoError) =>
        /\ pc = "Closed"
        /\ w.code # 0
        /\ w.body # <<>>

----------------------------------------------------------------------------
(* Claims about NewServer (specification SpecBuild). *)

\* two descriptors of the sequence share a name
HasDuplicateName(cfg) ==
    \E a, b \in DOMAIN cfg : a < b /\ cfg[a].Name = cfg[b].Name

\* the index of the first descriptor whose name an earlier one carries
FirstDuplicate(cfg) ==
    CHOOSE b \in DOMAIN cfg :
        /\ \E a \in 1..(b - 1) : cfg[a].Name = cfg[b].Name
        /\ \A c \in 1..(b - 1) : \A a \in 1..(c - 1) : cfg[a].Name # cfg[c].Name

\* the descriptor registers its collection route more than once: it has more
\* than one entry in Resources and CustomResources together, or one entry
\* beside a raw endpoint ""
RegistersTwice(ak) ==
    \/ ak.Resources + ak.CustomResources > 1
    \/ <<>> \in ak.RawEndpoints /\ ak.Resources + ak.CustomResources > 0

NewServerDone == build.state \in {"panicked", "returned"}

----------------------------------------------------------------------------
(* Claims about the routes of a returned server (specification SpecBuild). *)

\* What a request path names, read off the path alone:
\* /apis/<group>/<version>/<resource>[/<name>] or
\* /apis/<group>/<version>/namespaces/<ns>/<resource>[/<name>], every segment
\* non-empty; ok is FALSE for every other path.
PathResolved(path) ==
    LET b == SubSeq(path, Len(GroupVersionPath) + 1, Len(path))
        no == [ok |-> FALSE, resource |-> "", namespace |-> "", name |-> ""]
    IN  CASE ~IsPrefix(GroupVersionPath, path) \/ \E i \in DOMAIN b : b[i] = "" -> no
          [] Len(b) = 1 /\ b[1] # "namespaces" ->
                [ok |-> TRUE, resource |-> b[1], namespace |-> "", name |-> ""]
          [] Len(b) = 2 /\ b[1] # "namespaces" ->
                [ok |-> TRUE, resource |-> b[1], namespace |-> "", name |-> b[2]]
          [] Len(b) = 3 /\ b[1] = "namespaces" ->
                [ok |-> TRUE, resource |-> b[3], namespace |-> b[2], name |-> ""]
          [] Len(b) = 4 /\ b[1] = "namespaces" ->
                [ok |-> TRUE, resource |-> b[3], namespace |-> b[2], name |-> b[4]]
          [] OTHER -> no

\* the request was served by the closure of a CustomResource all of whose
\* callbacks are supplied
ServedByFullCustom ==
    /\ build.routed # "none"
    /\ build.served.handler.kind = "custom"
    /\ config[build.served.handler.i].Handlers = CustomHandlerNames
    /\ PathResolved(build.request.path).ok

\* the callback the mapping of the specification selects ("none": 404)
C14_Expected(r, name) ==
    CASE r.Method = "GET" /\ r.query.watch \in {"true", "True", "TRUE"} -> "Watch"
      [] r.Method = "GET" /\ r.query.watch \notin {"true", "True", "TRUE"} ->
            (IF name = "" THEN "List" ELSE "Get")
      [] r.Method = "PUT" -> "Replace"
      [] r.Method = "DELETE" -> "Delete"
      [] r.Method = "POST" -> "Create"
      [] OTHER -> "none"

\* C14: a request served by a custom-handler resource (with every callback
\* supplied) invokes the callback fixed by method, watch flag and name, on
\* the collection route, the item route and the namespaced route alike, and
\* is answered 404 without a callback exactly for the other methods.
C14_FixedMapping ==
    ServedByFullCustom =>
        LET expected == C14_Expected(build.request, PathResolved(build.request.path).name)
        IN  /\ build.served.callback = expected
            /\ build.served.notFound = (expected = "none")

\* C15: a custom-handler callback that is invoked receives the namespace and
\* the name of the request path ("" for a cluster-scoped route, "" for a
\* collection route).
C15_CallbackArguments ==
    (ServedByFullCustom /\ build.served.callback \in CustomHandlerNames) =>
        /\ build.served.namespace = PathResolved(build.request.path).namespace
        /\ build.served.name = PathResolved(build.request.path).name

\* the request path is /apis/<group>/<version>/namespaces/<ns>/<resource>[/<name>]
OnNamespacedRoute ==
    /\ build.routed # "none"
    /\ PathResolved(build.request.path).ok
    /\ PathResolved(build.request.path).namespace # ""

\* the descriptors of the configuration that are namespaced, carry the name
\* and have a Resource or a CustomResource
NamespacedKinds(name) ==
    { j \in DOMAIN config : /\ config[j].Name = name
                            /\ config[j].Namespaced
                            /\ config[j].Resources + config[j].CustomResources > 0 }

\* C18: a request on the namespaced route for a resource registered as
\* namespaced runs the closure of that resource's binding, the binding its
\* collection route serves, with the namespace and the name of the path
\* (name "" when the path has none), and a structured binding calls
\* handleResourceFunc with them; for every other resource name the answer is
\* 404 and no closure and no callback runs.
C18_NamespacedRoute ==
    OnNamespacedRoute =>
        LET p == PathResolved(build.request.path)
            h == build.served.handler
        IN  IF NamespacedKinds(p.resource) # {}
            THEN /\ build.routed = "namespaces"
                 /\ h.i \in NamespacedKinds(p.resource)
                 /\ h.route = "namespaced"
                 /\ h.kind = (IF config[h.i].Resources > 0 THEN "structured" ELSE "custom")
                 /\ \E m \in build.mux :
                        /\ m.pattern = Pattern(GroupVersionPath \o <<p.resource>>, FALSE)
                        /\ m.handler = [h EXCEPT !.route = "collection"]
                 /\ build.served.hNamespace = p.namespace
                 /\ build.served.hName = p.name
                 /\ h.kind = "structured" =>
                        /\ build.served.callback = "handleResourceFunc"
                        /\ build.served.namespace = p.namespace
                        /\ build.served.name = p.name
                        /\ ~build.served.notFound
            ELSE /\ build.routed \in {"404", "namespaces"}
                 /\ h.kind \in {"none", "namespaces"}
                 /\ build.served.notFound
                 /\ build.served.callback = "none"

\* /apis/example.com/v1/namespaces/ns1/widgets/x served by the structured
\* binding of widgets with namespace ns1 and name x
C18_Witness ==
    /\ build.request.path = GroupVersionPath \o <<"namespaces", "ns1", "widgets", "x">>
    /\ build.routed = "namespaces"
    /\ build.served.handler.kind = "structured"
    /\ config[build.served.handler.i].Name = "widgets"
    /\ build.served.callback = "handleResourceFunc"
    /\ build.served.namespace = "ns1"
    /\ build.served.name = "x"

\* the part of the request path below /apis/<group>/<version>
BelowGroupVersion == SubSeq(build.request.path, Len(GroupVersionPath) + 1, Len(build.request.path))

\* C25: a request served by the closure of a raw endpoint, of a Resource or
\* of a CustomResource is served by the closure registered for the
\* descriptor the path names, the only one of that name: the entry is one
\* of that descriptor's, and a custom callback invoked is one that
\* descriptor supplies.
C25_OwnDescriptor ==
    (build.routed # "none" /\ build.served.handler.kind \in {"raw", "structured", "custom"}) =>
        LET h == build.served.handler
            b == BelowGroupVersion
            resource == IF b[1] = "namespaces" THEN b[3] ELSE b[1]
        IN  /\ h.i \in DOMAIN config
            /\ config[h.i].Name = resource
            /\ \A j \in DOMAIN config : config[j].Name = resource => j = h.i
            /\ h.kind = "raw" => SubSeq(b, 2, Len(b)) \in config[h.i].RawEndpoints
            /\ h.kind = "structured" =>
                  /\ h.ii \in 1..config[h.i].Resources
                  /\ build.served.callback \in {"handleResourceFunc", "none"}
            /\ h.kind = "custom" =>
                  /\ h.ii \in 1..config[h.i].CustomResources
                  /\ build.served.callback \in config[h.i].Handlers \cup {"none"}
            /\ (b[1] = "namespaces") = (h.route = "namespaced")
            /\ h.route = "namespaced" => config[h.i].Namespaced
            /\ h.route = "item" => ~config[h.i].Namespaced

\* foo, a custom-handler resource, registered before the structured resource
\* widgets: a GET of /apis/example.com/v1/foo/x invokes foo's Get callback
C25_Witness ==
    /\ Len(config) = 2
    /\ config[1].Name = "foo"
    /\ config[1].Handlers = {"Get", "List"}
    /\ config[2].Name = "widgets"
    /\ config[2].Resources = 1
    /\ build.request.path = GroupVersionPath \o <<"foo", "x">>
    /\ build.served.handler.kind = "custom"
    /\ build.served.handler.i = 1
    /\ build.served.callback = "Get"

\* C27: a request served by the closure of a CustomResource either invokes
\* one callback or is answered 404 by the closure, and never neither.
C27_CallbackOrNotFound ==
    (build.routed # "none" /\ build.served.handler.kind = "custom") =>
        (build.served.callback \in CustomHandlerNames) # build.served.notFound

\* C28: on the namespaced route the closure of a resource is called with an
\* empty name only for a path without a name segment
\* (/namespaces/<ns>/<resource>, with or without a final "/").
C28_EmptyNameOnlyWithoutSegment ==
    ( /\ build.routed = "namespaces"
      /\ build.served.handler.kind \in {"structured", "custom"}
      /\ build.served.hName = "" )
    => \/ Len(BelowGroupVersion) = 3
       \/ Len(BelowGroupVersion) = 4 /\ BelowGroupVersion[4] = ""

====
